---- MODULE Spec2Model ----
(***************************************************************************)
(* Model of start-app-launcher (src/src/main.rs): a terminal menu that     *)
(* lets the user pick one of a list of options and spawns the programs of  *)
(* the chosen option.                                                      *)
(*                                                                         *)
(* The state is main's position (pc), the App value (options, selected),   *)
(* the terminal's modes, the last frame drawn, run_app's return site and   *)
(* result, main's result, and the spawn attempts made by App::select.      *)
(* hist is a history variable: the classes of the events dispatched so far *)
(* with the value of selected after each.  exited is the set of the        *)
(* indices in spawned of the children that have terminated.                *)
(***************************************************************************)
EXTENDS Integers, Sequences, FiniteSets

VARIABLES pc, options, selected, rawMode, altScreen, frame, event, ret, res,
          mainRes, spawned, launchErrors, hist, exited

vars == <<pc, options, selected, rawMode, altScreen, frame, event, ret, res,
          mainRes, spawned, launchErrors, hist, exited>>

(* Bounds of the model *)
MaxKeys == 6     \* non-terminal events dispatched in one run
MaxGroups == 6   \* longest option list of SpecAny

(***************************************************************************)
(* App                                                                     *)
(***************************************************************************)

\* App::new: the option list of the program
NewOptions == <<"Nothing", "Study", "Docker", "Dev", "Play">>

\* names for option lists of other lengths: the five names of the program
\* and one name that no arm of App::select matches
NamePool == <<"Nothing", "Study", "Docker", "Dev", "Play", "Other">>

AnyOptions(n) == [i \in 1..n |-> NamePool[((i - 1) % Len(NamePool)) + 1]]

\* a next that stops at the last option instead of wrapping
next_saturating(sel, len) == IF sel + 1 < len THEN sel + 1 ELSE sel

\* a next that moves two options at a time
next_plus_two(sel, len) == (sel + 2) % len

\* App::next: self.selected = (self.selected + 1) % self.options.len()
next(sel, len) == (sel + 1) % len

\* a prev that wraps to len instead of len - 1
prev_wrap_len(sel, len) == IF sel > 0 THEN sel - 1 ELSE len

\* a prev that stays on the first option instead of wrapping
prev_saturating(sel, len) == IF sel > 0 THEN sel - 1 ELSE 0

\* a prev that wraps to the option before the last
prev_wrap_short(sel, len) == IF sel > 0 THEN sel - 1 ELSE IF len > 1 THEN len - 2 ELSE 0

\* App::prev
prev(sel, len) == IF sel > 0 THEN sel - 1 ELSE len - 1

\* the commands of each arm of the match in App::select, in statement order
Commands(name) ==
    CASE name = "Nothing" -> <<>>
      [] name = "Study"   -> <<"obsidian", "brave-browser">>
      [] name = "Docker"  -> <<"sh -c docker start $(docker ps -aq)", "konsole", "obsidian">>
      [] name = "Dev"     -> <<"code", "obsidian">>
      [] name = "Play"    -> <<"discord", "steam">>
      [] OTHER            -> <<>>

\* Command::new(cmd).spawn(): the child is forked and exec'ed with the
\* defaults of std::process::Command: no setsid, no process_group, so a
\* child that starts stays in the session and process group of the launcher
spawn(cmd, started) ==
    [cmd |-> cmd, started |-> started,
     session |-> IF started THEN "launcher" ELSE "none",
     pgroup  |-> IF started THEN "launcher" ELSE "none"]

\* a select that gives up at the first spawn that fails
select_abort(opts, sel, outcome) ==
    LET cmds == Commands(opts[sel + 1])
        fails == {i \in 1..Len(cmds) : ~outcome[i]}
        last == IF fails = {} THEN Len(cmds)
                ELSE CHOOSE i \in fails : \A j \in fails : i <= j
    IN  [i \in 1..last |-> spawn(cmds[i], outcome[i])]

\* App::select: every statement of the matching arm runs; .ok() turns the
\* Result of each spawn into an Option that is dropped, so a failure never
\* stops the statements after it.  outcome[i] is whether the i-th spawn starts
select(opts, sel, outcome) ==
    LET cmds == Commands(opts[sel + 1])
    IN  [i \in 1..Len(cmds) |-> spawn(cmds[i], outcome[i])]

\* the outcomes the operating system can give to the spawns of one option
Outcomes(opts, sel) == [1..Len(Commands(opts[sel + 1])) -> BOOLEAN]

\* a ui that highlights the option after the selected one
ui_off_by_one(opts, sel) ==
    [drawn |-> TRUE, names |-> opts,
     highlighted |-> {i \in 0..(Len(opts) - 1) : i = sel + 1}]

\* ui: the list widget gets one item per option; the item whose index equals
\* app.selected gets the highlighted style
ui(opts, sel) ==
    [drawn |-> TRUE, names |-> opts,
     highlighted |-> {i \in 0..(Len(opts) - 1) : i = sel}]

NoFrame == [drawn |-> FALSE, names |-> <<>>, highlighted |-> {}]

\* the match on key.code in run_app ("x" is any key without an arm of its
\* own, "Mouse" any event that is not Event::Key)
Events == {"q", "Esc", "Down", "j", "Up", "k", "Enter", "x", "Mouse"}

Classify(e) ==
    CASE e \in {"q", "Esc"}  -> "Quit"
      [] e \in {"Down", "j"} -> "Down"
      [] e \in {"Up", "k"}   -> "Up"
      [] e = "Enter"         -> "Confirm"
      [] OTHER               -> "Ignored"

(***************************************************************************)
(* Initial states                                                          *)
(***************************************************************************)

InitWith(opts) ==
    /\ pc = "enable_raw_mode"
    /\ options = opts
    /\ selected = 0
    /\ rawMode = FALSE
    /\ altScreen = FALSE
    /\ frame = NoFrame
    /\ event = "none"
    /\ ret = "none"
    /\ res = "none"
    /\ mainRes = "none"
    /\ spawned = <<>>
    /\ launchErrors = <<>>
    /\ hist = <<>>
    /\ exited = {}

\* the program: App::new always builds the same five options
Init == InitWith(NewOptions)

\* App's methods, run_app and ui for an App with any non-empty option list
InitAny == \E n \in 1..MaxGroups : InitWith(AnyOptions(n))

(***************************************************************************)
(* main: terminal set-up                                                   *)
(***************************************************************************)

\* main returns early through a `?`
MainFails ==
    /\ pc' = "exit"
    /\ mainRes' = "Err"

\* enable_raw_mode()?
EnableRawMode ==
    /\ pc = "enable_raw_mode"
    /\ \E ok \in BOOLEAN :
         IF ok THEN /\ rawMode' = TRUE
                    /\ pc' = "enter_alt"
                    /\ UNCHANGED mainRes
               ELSE /\ MainFails
                    /\ UNCHANGED rawMode
    /\ UNCHANGED <<options, exited, selected, altScreen, frame, event, ret, res,
                   spawned, launchErrors, hist>>

\* execute!(stdout, EnterAlternateScreen, EnableMouseCapture)?
\* when the macro fails the screen may or may not have been switched already
EnterAlternateScreen ==
    /\ pc = "enter_alt"
    /\ \E ok \in BOOLEAN :
         IF ok THEN /\ altScreen' = TRUE
                    /\ pc' = "terminal_new"
                    /\ UNCHANGED mainRes
               ELSE /\ MainFails
                    /\ altScreen' \in BOOLEAN
    /\ UNCHANGED <<options, exited, selected, rawMode, frame, event, ret, res,
                   spawned, launchErrors, hist>>

\* Terminal::new(backend)?
TerminalNew ==
    /\ pc = "terminal_new"
    /\ \E ok \in BOOLEAN :
         IF ok THEN /\ pc' = "app_new"
                    /\ UNCHANGED mainRes
               ELSE MainFails
    /\ UNCHANGED <<options, exited, selected, rawMode, altScreen, frame, event, ret,
                   res, spawned, launchErrors, hist>>

\* let app = App::new(); run_app(&mut terminal, app) is entered
AppNew ==
    /\ pc = "app_new"
    /\ selected' = 0
    /\ pc' = "draw"
    /\ UNCHANGED <<options, exited, rawMode, altScreen, frame, event, ret, res,
                   mainRes, spawned, launchErrors, hist>>

(***************************************************************************)
(* run_app: the loop                                                       *)
(***************************************************************************)

\* run_app returns r from the site named by site; main goes on to its clean-up
Return(site, r) ==
    /\ ret' = site
    /\ res' = r
    /\ pc' = "disable_raw_mode"

\* terminal.draw(|f| ui(f, &app))?
Draw ==
    /\ pc = "draw"
    /\ \E ok \in BOOLEAN :
         IF ok THEN /\ frame' = ui(options, selected)
                    /\ pc' = "poll"
                    /\ UNCHANGED <<ret, res>>
               ELSE /\ Return("draw_err", "Err")
                    /\ UNCHANGED frame
    /\ UNCHANGED <<options, exited, selected, rawMode, altScreen, event, mainRes,
                   spawned, launchErrors, hist>>

\* a timeout that moves the selection to the next option
PollTimeout_advances ==
    /\ pc = "poll"
    /\ pc' = "draw"
    /\ selected' = next(selected, Len(options))
    /\ UNCHANGED <<options, exited, rawMode, altScreen, frame, event, ret,
                   res, mainRes, spawned, launchErrors, hist>>

\* crossterm::event::poll(250ms)? returns false: nothing to read, loop again
PollTimeout ==
    /\ pc = "poll"
    /\ pc' = "draw"
    /\ UNCHANGED <<options, exited, selected, rawMode, altScreen, frame, event, ret,
                   res, mainRes, spawned, launchErrors, hist>>

\* poll returns true: an event is waiting
PollReady ==
    /\ pc = "poll"
    /\ pc' = "read"
    /\ UNCHANGED <<options, exited, selected, rawMode, altScreen, frame, event, ret,
                   res, mainRes, spawned, launchErrors, hist>>

\* poll fails: the `?` returns the error
PollErr ==
    /\ pc = "poll"
    /\ Return("poll_err", "Err")
    /\ UNCHANGED <<options, exited, selected, rawMode, altScreen, frame, event,
                   mainRes, spawned, launchErrors, hist>>

\* event::read()? fails
ReadErr ==
    /\ pc = "read"
    /\ Return("read_err", "Err")
    /\ UNCHANGED <<options, exited, selected, rawMode, altScreen, frame, event,
                   mainRes, spawned, launchErrors, hist>>

\* the event e is read and dispatched; the history records its class and
\* the value sel that the dispatch leaves in app.selected
Dispatched(e, sel) ==
    /\ pc = "read"
    /\ event' = e
    /\ hist' = Append(hist, [ev |-> Classify(e), sel |-> sel])

\* an event that ends the loop is always accepted; the others while the
\* bound on the length of a run allows
MoreKeys == Len(hist) < MaxKeys

\* a quit arm that runs select before it returns
KeyQuit_selects ==
    /\ \E e \in {"q", "Esc"} : Dispatched(e, selected)
    /\ \E outcome \in Outcomes(options, selected) :
         spawned' = spawned \o select(options, selected, outcome)
    /\ Return("quit", "Ok")
    /\ UNCHANGED <<options, exited, selected, rawMode, altScreen, frame, mainRes,
                   launchErrors>>

\* KeyCode::Char('q') | KeyCode::Esc => return Ok(())
KeyQuit ==
    /\ \E e \in {"q", "Esc"} : Dispatched(e, selected)
    /\ Return("quit", "Ok")
    /\ UNCHANGED <<options, exited, selected, rawMode, altScreen, frame, mainRes,
                   spawned, launchErrors>>

\* a Down arm that also takes the key k
KeyDown_k ==
    /\ MoreKeys
    /\ selected' = next(selected, Len(options))
    /\ \E e \in {"Down", "j", "k"} : Dispatched(e, selected')
    /\ pc' = "draw"
    /\ UNCHANGED <<options, exited, rawMode, altScreen, frame, ret, res,
                   mainRes, spawned, launchErrors>>

\* a Down arm that calls next twice
KeyDown_twice ==
    /\ MoreKeys
    /\ selected' = next(next(selected, Len(options)), Len(options))
    /\ \E e \in {"Down", "j"} : Dispatched(e, selected')
    /\ pc' = "draw"
    /\ UNCHANGED <<options, exited, rawMode, altScreen, frame, ret, res,
                   mainRes, spawned, launchErrors>>

\* KeyCode::Down | KeyCode::Char('j') => app.next()
KeyDown ==
    /\ MoreKeys
    /\ selected' = next(selected, Len(options))
    /\ \E e \in {"Down", "j"} : Dispatched(e, selected')
    /\ pc' = "draw"
    /\ UNCHANGED <<options, exited, rawMode, altScreen, frame, ret, res, mainRes,
                   spawned, launchErrors>>

\* KeyCode::Up | KeyCode::Char('k') => app.prev()
KeyUp ==
    /\ MoreKeys
    /\ selected' = prev(selected, Len(options))
    /\ \E e \in {"Up", "k"} : Dispatched(e, selected')
    /\ pc' = "draw"
    /\ UNCHANGED <<options, exited, rawMode, altScreen, frame, ret, res, mainRes,
                   spawned, launchErrors>>

\* an Enter arm that waits for every child it started before it returns
KeyEnter_waits ==
    /\ Dispatched("Enter", selected)
    /\ \E outcome \in Outcomes(options, selected) :
         spawned' = spawned \o select(options, selected, outcome)
    /\ exited' = {i \in 1..Len(spawned') : spawned'[i].started}
    /\ launchErrors' = <<>>
    /\ Return("enter", "Ok")
    /\ UNCHANGED <<options, selected, rawMode, altScreen, frame, mainRes>>

\* an Enter arm that runs select and stays in the loop
KeyEnter_stays ==
    /\ MoreKeys
    /\ Dispatched("Enter", selected)
    /\ \E outcome \in Outcomes(options, selected) :
         spawned' = spawned \o select(options, selected, outcome)
    /\ launchErrors' = <<>>
    /\ pc' = "draw"
    /\ UNCHANGED <<options, exited, selected, rawMode, altScreen, frame,
                   ret, res, mainRes>>

\* KeyCode::Enter => { app.select(); return Ok(()) }
\* select returns (): no error of a spawn is kept, returned or printed
KeyEnter ==
    /\ Dispatched("Enter", selected)
    /\ \E outcome \in Outcomes(options, selected) :
         spawned' = spawned \o select(options, selected, outcome)
    /\ launchErrors' = <<>>
    /\ Return("enter", "Ok")
    /\ UNCHANGED <<options, exited, selected, rawMode, altScreen, frame, mainRes>>

\* a default arm that moves the selection
KeyIgnored_moves ==
    /\ MoreKeys
    /\ selected' = next(selected, Len(options))
    /\ \E e \in {"x", "Mouse"} : Dispatched(e, selected')
    /\ pc' = "draw"
    /\ UNCHANGED <<options, exited, rawMode, altScreen, frame, ret, res,
                   mainRes, spawned, launchErrors>>

\* _ => {} and an event that is not Event::Key: nothing happens
KeyIgnored ==
    /\ MoreKeys
    /\ \E e \in {"x", "Mouse"} : Dispatched(e, selected)
    /\ pc' = "draw"
    /\ UNCHANGED <<options, exited, selected, rawMode, altScreen, frame, ret, res,
                   mainRes, spawned, launchErrors>>

(***************************************************************************)
(* main: clean-up after run_app has returned                               *)
(***************************************************************************)

\* a clean-up that goes on when disable_raw_mode fails
DisableRawMode_ignored ==
    /\ pc = "disable_raw_mode"
    /\ \E ok \in BOOLEAN :
         rawMode' = IF ok THEN FALSE ELSE rawMode
    /\ pc' = "leave_alt"
    /\ UNCHANGED <<options, exited, selected, altScreen, frame, event, ret,
                   res, mainRes, spawned, launchErrors, hist>>

\* disable_raw_mode()?
DisableRawMode ==
    /\ pc = "disable_raw_mode"
    /\ \E ok \in BOOLEAN :
         IF ok THEN /\ rawMode' = FALSE
                    /\ pc' = "leave_alt"
                    /\ UNCHANGED mainRes
               ELSE /\ MainFails
                    /\ UNCHANGED rawMode
    /\ UNCHANGED <<options, exited, selected, altScreen, frame, event, ret, res,
                   spawned, launchErrors, hist>>

\* execute!(terminal.backend_mut(), LeaveAlternateScreen, DisableMouseCapture)?
LeaveAlternateScreen ==
    /\ pc = "leave_alt"
    /\ \E ok \in BOOLEAN :
         IF ok THEN /\ altScreen' = FALSE
                    /\ pc' = "show_cursor"
                    /\ UNCHANGED mainRes
               ELSE /\ MainFails
                    /\ altScreen' \in {altScreen, FALSE}
    /\ UNCHANGED <<options, exited, selected, rawMode, frame, event, ret, res,
                   spawned, launchErrors, hist>>

\* terminal.show_cursor()?; if let Err(err) = res { println!(..) }; Ok(())
ShowCursor ==
    /\ pc = "show_cursor"
    /\ \E ok \in BOOLEAN :
         IF ok THEN /\ pc' = "exit"
                    /\ mainRes' = "Ok"
               ELSE MainFails
    /\ UNCHANGED <<options, exited, selected, rawMode, altScreen, frame, event, ret,
                   res, spawned, launchErrors, hist>>

(***************************************************************************)
(* The children                                                            *)
(***************************************************************************)

\* a child that was started terminates, at a time of its own choosing: the
\* launcher keeps no Child handle and never calls wait on it
ChildExit ==
    /\ \E i \in 1..Len(spawned) :
         /\ spawned[i].started
         /\ i \notin exited
         /\ exited' = exited \cup {i}
    /\ UNCHANGED <<pc, options, selected, rawMode, altScreen, frame, event,
                   ret, res, mainRes, spawned, launchErrors, hist>>

Next ==
    \/ EnableRawMode
    \/ EnterAlternateScreen
    \/ TerminalNew
    \/ AppNew
    \/ Draw
    \/ PollTimeout
    \/ PollReady
    \/ PollErr
    \/ ReadErr
    \/ KeyQuit
    \/ KeyDown
    \/ KeyUp
    \/ KeyEnter
    \/ KeyIgnored
    \/ DisableRawMode
    \/ LeaveAlternateScreen
    \/ ShowCursor
    \/ ChildExit

Spec == Init /\ [][Next]_vars

SpecAny == InitAny /\ [][Next]_vars

(***************************************************************************)
(* Properties                                                              *)
(***************************************************************************)

n == Len(options)

\* the value of selected before the i-th dispatched event
Before(i) == IF i = 1 THEN 0 ELSE hist[i - 1].sel

\* the commands of a sequence of spawn attempts
CmdsOf(attempts) == [i \in 1..Len(attempts) |-> attempts[i].cmd]

AllDown == \A i \in 1..Len(hist) : hist[i].ev = "Down"

\* the history records the value of selected
HistTracksSelected ==
    selected = IF hist = <<>> THEN 0 ELSE hist[Len(hist)].sel

\* C1: in every reachable state, whatever the number n >= 1 of options and
\* whatever events were dispatched, 0 <= selected < n
C1_SelectedInRange == n >= 1 => (0 <= selected /\ selected < n)

\* C1 witness: an Up from the first option has wrapped to the last of at
\* least three, after other events
C1_Witness ==
    /\ n >= 3
    /\ Len(hist) >= 3
    /\ hist[Len(hist)].ev = "Up"
    /\ Before(Len(hist)) = 0
    /\ selected = n - 1

\* C2: once Enter has been dispatched, the spawn attempts of the run are
\* exactly the commands of the selected option, one each and in order, and
\* run_app has returned Ok, whether or not the spawns started
C2_ConfirmLaunchesGroup ==
    ret = "enter" =>
        /\ CmdsOf(spawned) = Commands(options[selected + 1])
        /\ res = "Ok"
        /\ hist[Len(hist)].ev = "Confirm"

\* C2 witness: Enter on "Docker", where the first spawn failed and the
\* other two were still attempted
C2_Witness ==
    /\ ret = "enter"
    /\ options[selected + 1] = "Docker"
    /\ Len(spawned) = 3
    /\ ~spawned[1].started
    /\ spawned[3].started
    /\ res = "Ok"

\* C3: once q or Esc has been dispatched, after any navigation, nothing
\* has been spawned and run_app has returned Ok
C3_QuitLaunchesNothing ==
    ret = "quit" =>
        /\ spawned = <<>>
        /\ res = "Ok"
        /\ hist[Len(hist)].ev = "Quit"

\* C3 witness: a quit after navigation away from the first option
C3_Witness ==
    /\ ret = "quit"
    /\ Len(hist) >= 3
    /\ selected # 0
    /\ spawned = <<>>

\* the commands of the attempts that did not start, in order
FailedCmds(attempts) ==
    LET Failed(a) == ~a.started
    IN  CmdsOf(SelectSeq(attempts, Failed))

\* C4: the launch of a group yields an error list with exactly one entry
\* for each spec that failed to start, naming it, and every spec is
\* attempted whatever failed before it
C4_ErrorPerFailedSpec ==
    ret = "enter" =>
        /\ CmdsOf(spawned) = Commands(options[selected + 1])
        /\ launchErrors = FailedCmds(spawned)

\* C5: after k Down events and nothing else, selected = k mod n
C5_DownsCountModN ==
    (n >= 1 /\ AllDown) => selected = Len(hist) % n

\* C5 witness: more Down events than options, so that the index has wrapped
C5_Witness ==
    /\ n >= 2
    /\ AllDown
    /\ Len(hist) > n
    /\ selected = Len(hist) - n

\* C6: an Up from selected = 0 gives n - 1, an Up from i > 0 gives i - 1
C6_UpStep ==
    /\ HistTracksSelected
    /\ \A i \in 1..Len(hist) :
         hist[i].ev = "Up" =>
             hist[i].sel = IF Before(i) = 0 THEN n - 1 ELSE Before(i) - 1

\* C6 witness: an Up from 0 followed by an Up from n - 1 > 0
C6_Witness ==
    /\ n >= 2
    /\ Len(hist) >= 2
    /\ hist[Len(hist) - 1].ev = "Up"
    /\ Before(Len(hist) - 1) = 0
    /\ hist[Len(hist)].ev = "Up"
    /\ selected = n - 2

\* C7: a Down immediately followed by an Up, and an Up immediately followed
\* by a Down, leave selected as it was before the pair
C7_DownUpIdentity ==
    /\ HistTracksSelected
    /\ \A i \in 2..Len(hist) :
         (\/ hist[i - 1].ev = "Down" /\ hist[i].ev = "Up"
          \/ hist[i - 1].ev = "Up" /\ hist[i].ev = "Down")
             => hist[i].sel = Before(i - 1)

\* C7 witness: Up, Down, Up from the first option: the pair Up-Down at the
\* wrap position 0 and the pair Down-Up at the wrap position n - 1
C7_Witness ==
    /\ n >= 2
    /\ Len(hist) = 3
    /\ hist[1].ev = "Up" /\ hist[1].sel = n - 1
    /\ hist[2].ev = "Down" /\ hist[2].sel = 0
    /\ hist[3].ev = "Up" /\ selected = n - 1

\* C9: every process that was started is in a session and a process group
\* of its own, not in those of the launcher
C9_Detached ==
    \A i \in 1..Len(spawned) :
        spawned[i].started =>
            /\ spawned[i].session # "launcher"
            /\ spawned[i].pgroup # "launcher"

\* C10: whenever the loop waits for or reads input, the frame on screen was
\* drawn from the current selected and highlights exactly that option; the
\* loop goes render, wait, at most one dispatch, render; and selected
\* changes only in a dispatch that is followed by a render
C10_RenderBeforeInput ==
    /\ [](pc \in {"poll", "read"} =>
             /\ frame.drawn
             /\ frame.names = options
             /\ frame.highlighted = {selected})
    /\ [][/\ pc = "draw" => pc' \in {"poll", "disable_raw_mode"}
          /\ pc = "poll" => pc' \in {"read", "draw", "disable_raw_mode"}
          /\ pc = "read" => /\ pc' \in {"draw", "disable_raw_mode"}
                            /\ Len(hist') <= Len(hist) + 1
          /\ pc' = "read" => pc = "poll"
          /\ selected' # selected => pc = "read" /\ pc' = "draw"]_vars

\* C10 witness: the loop waits for input on a frame drawn after the
\* selection moved from the first option
C10_Witness ==
    /\ pc = "poll"
    /\ Len(hist) >= 2
    /\ selected = 3
    /\ frame.highlighted = {3}

\* the last event dispatched, when there is one
LastEv == IF hist = <<>> THEN "none" ELSE hist[Len(hist)].ev

\* the keys that have an arm of their own in the match of run_app
NamedKeys == {"q", "Esc", "Down", "j", "Up", "k", "Enter"}

\* run_app has returned: main is in its clean-up or has returned
Returned == pc \in {"disable_raw_mode", "leave_alt", "show_cursor", "exit"}

\* main has printed run_app's error: the println! is reached only after the
\* three clean-up steps succeeded, and main then returns Ok
Printed == pc = "exit" /\ mainRes = "Ok" /\ res = "Err"

\* C11: an event other than q, Esc, Down, j, Up, k, Enter is ignored: the
\* loop goes on, selected is unchanged and nothing is spawned
C11_OtherInputIgnored ==
    [][(pc = "read" /\ hist' # hist /\ event' \notin NamedKeys) =>
          /\ pc' = "draw"
          /\ ret = "none" /\ ret' = "none" /\ res' = "none"
          /\ selected' = selected
          /\ spawned = <<>> /\ spawned' = <<>>]_vars

\* C11 witness: a mouse event was dispatched after navigation, and the loop
\* is about to draw again with the selection where it was
C11_Witness ==
    /\ event = "Mouse"
    /\ LastEv = "Ignored"
    /\ pc = "draw"
    /\ Len(hist) >= 3
    /\ selected = 2
    /\ Before(Len(hist)) = 2
    /\ spawned = <<>>

\* C12: a failure of poll or read ends the loop at once with that error,
\* spawns nothing and changes neither selected nor the history; and when
\* main prints that error, raw mode is off and the alternate screen is left
C12_InputErrorPropagates ==
    /\ [][(ret = "none" /\ ret' \in {"poll_err", "read_err"}) =>
             /\ pc \in {"poll", "read"}
             /\ pc' = "disable_raw_mode"
             /\ res' = "Err"
             /\ selected' = selected
             /\ hist' = hist
             /\ spawned = <<>> /\ spawned' = <<>>]_vars
    /\ [](ret \in {"poll_err", "read_err"} => (Returned /\ spawned = <<>>))
    /\ []((ret \in {"poll_err", "read_err"} /\ Printed) =>
             (~rawMode /\ ~altScreen))

\* C12 witness: a read failed after navigation and main printed the error
\* on a restored terminal
C12_Witness ==
    /\ ret = "read_err"
    /\ Printed
    /\ Len(hist) >= 2
    /\ selected # 0
    /\ ~rawMode
    /\ ~altScreen

\* C13: the Enter arm returns in the step that makes the spawns, with every
\* command of the option attempted and without any child having exited
C13_LaunchDoesNotWait ==
    [][(ret = "none" /\ ret' = "enter") =>
          /\ pc' = "disable_raw_mode"
          /\ res' = "Ok"
          /\ Len(spawned') = Len(Commands(options[selected + 1]))
          /\ exited' = {}]_vars

\* C13 witness: main has returned after an Enter on "Docker" whose three
\* children all started and none of them has exited
C13_Witness ==
    /\ ret = "enter"
    /\ pc = "exit"
    /\ mainRes = "Ok"
    /\ Len(spawned) = 3
    /\ \A i \in 1..3 : spawned[i].started
    /\ exited = {}

\* C14: every event read has exactly one effect, by its key: q or Esc quits,
\* Down or j moves down, Up or k moves up, Enter confirms, anything else
\* is ignored
C14_KeyMapping ==
    [][(pc = "read" /\ hist' # hist) =>
          /\ event' \in Events
          /\ event' \in {"q", "Esc"} =>
                 /\ LastEv' = "Quit"
                 /\ ret' = "quit"
                 /\ selected' = selected
                 /\ spawned' = <<>>
          /\ event' \in {"Down", "j"} =>
                 /\ LastEv' = "Down"
                 /\ ret' = "none"
                 /\ selected' = (selected + 1) % n
                 /\ spawned' = <<>>
          /\ event' \in {"Up", "k"} =>
                 /\ LastEv' = "Up"
                 /\ ret' = "none"
                 /\ selected' = IF selected = 0 THEN n - 1 ELSE selected - 1
                 /\ spawned' = <<>>
          /\ event' = "Enter" =>
                 /\ LastEv' = "Confirm"
                 /\ ret' = "enter"
                 /\ selected' = selected
                 /\ CmdsOf(spawned') = Commands(options[selected + 1])
          /\ event' \notin NamedKeys =>
                 /\ LastEv' = "Ignored"
                 /\ ret' = "none"
                 /\ selected' = selected
                 /\ spawned' = <<>>]_vars

\* C14 witness: the key k was the first event and moved the selection up,
\* from the first option to the last
C14_Witness ==
    /\ event = "k"
    /\ Len(hist) = 1
    /\ LastEv = "Up"
    /\ selected = n - 1
    /\ ret = "none"

\* C15: with the options "Nothing" and "Study", the events Down, Down, Up,
\* Enter take selected through 0, 1, 0, 1, nothing is spawned before the
\* Enter, and the Enter spawns the two commands of "Study" in order
C15_Scenario ==
    LET keys == <<"Down", "Down", "Up", "Confirm">>
        sels == <<1, 0, 1, 1>>
    IN  (/\ options = <<"Nothing", "Study">>
         /\ Len(hist) <= 4
         /\ \A i \in 1..Len(hist) : hist[i].ev = keys[i])
        => /\ \A i \in 1..Len(hist) : hist[i].sel = sels[i]
           /\ selected = IF hist = <<>> THEN 0 ELSE sels[Len(hist)]
           /\ Len(hist) < 4 => spawned = <<>>
           /\ Len(hist) = 4 =>
                  /\ ret = "enter"
                  /\ CmdsOf(spawned) = <<"obsidian", "brave-browser">>

\* C15 witness: the four events of the scenario were dispatched on the two
\* options and the two spawns were attempted
C15_Witness ==
    /\ options = <<"Nothing", "Study">>
    /\ [i \in 1..Len(hist) |-> hist[i].ev] = <<"Down", "Down", "Up", "Confirm">>
    /\ selected = 1
    /\ Len(spawned) = 2

\* C16: an event read makes one entry in the history and either one step of
\* navigation at most, with the loop going on to draw, or one return from
\* run_app with selected unchanged; selected changes in no other step; and
\* the frame on screen when an event is read shows the current selected
C16_OneTransitionPerEvent ==
    /\ [][hist' # hist =>
             /\ pc = "read"
             /\ Len(hist') = Len(hist) + 1
             /\ ret = "none"
             /\ \/ /\ ret' = "none"
                   /\ pc' = "draw"
                   /\ spawned' = spawned
                   /\ selected' \in {selected, (selected + 1) % n,
                                    IF selected = 0 THEN n - 1
                                                    ELSE selected - 1}
                \/ /\ ret' \in {"quit", "enter"}
                   /\ pc' = "disable_raw_mode"
                   /\ selected' = selected]_vars
    /\ [][selected' # selected => hist' # hist]_vars
    /\ [][hist' # hist =>
             (frame.drawn /\ frame.highlighted = {selected})]_vars

\* C16 witness: one Down was dispatched, moved the selection by one, and
\* the frame was drawn again before the next event
C16_Witness ==
    /\ Len(hist) = 1
    /\ LastEv = "Down"
    /\ selected = 1
    /\ pc = "read"
    /\ frame.highlighted = {1}

\* C17: when poll times out nothing changes but the position in the loop,
\* which goes back to draw: run_app has not returned, selected, the history
\* and the spawns are as they were
C17_TimeoutNoAction ==
    [][(pc = "poll" /\ pc' = "draw") =>
          /\ ret = "none"
          /\ UNCHANGED <<options, selected, rawMode, altScreen, frame, event,
                         ret, res, mainRes, spawned, launchErrors, hist>>]_vars

\* C17 witness: a timeout after an Up that wrapped: the loop is back at draw
\* although the frame on screen already shows the current selected
C17_Witness ==
    /\ pc = "draw"
    /\ LastEv = "Up"
    /\ selected = n - 1
    /\ frame.drawn
    /\ frame.highlighted = {selected}

\* C18: nothing is spawned unless run_app returned from the Enter arm; the
\* spawns of a run are the commands of one option; an event that ends the
\* loop is the last of the history; and once run_app has returned, no event
\* is read and selected, the spawns and the frame stay as they are
C18_AtMostOneGroup ==
    /\ [](ret # "enter" => spawned = <<>>)
    /\ [](ret = "enter" =>
             \E g \in 1..n : CmdsOf(spawned) = Commands(options[g]))
    /\ [](\A i \in 1..Len(hist) :
             hist[i].ev \in {"Confirm", "Quit"} => i = Len(hist))
    /\ [][ret # "none" =>
             UNCHANGED <<ret, res, selected, spawned, launchErrors, hist,
                         event, frame>>]_vars

\* C18 witness: main has returned after an Enter on "Play" that followed
\* navigation: two spawn attempts, those of "Play"
C18_Witness ==
    /\ ret = "enter"
    /\ pc = "exit"
    /\ options[selected + 1] = "Play"
    /\ Len(hist) >= 3
    /\ CmdsOf(spawned) = <<"discord", "steam">>

\* C19: whenever main has returned, raw mode is off and the alternate
\* screen has been left
C19_RestoredOnReturn ==
    pc = "exit" => (~rawMode /\ ~altScreen)

====
